---------------------------- MODULE Spec2Model ----------------------------
(***************************************************************************)
(* State-machine model of the Matrix Metrics risk engine                   *)
(* (src/matrix_metrics_app/src/core/systemic_risk.py) and of the           *)
(* centrality helper it calls (src/core/network_utils.py).                 *)
(*                                                                         *)
(* Numbers.  The engine computes in floating point.  The model feeds it    *)
(* integer compromise scores and integer connection strengths, for which   *)
(* every value of the quadratic model is a rational multiple of one square *)
(* root, (num/den) * sqrt(rad).  Such a value is kept exactly, in          *)
(* canonical form (num/den reduced, den > 0, rad square-free, zero as      *)
(* 0/1*sqrt(1)), so that = on two values is equality of the reals they     *)
(* denote.  The IEEE specials the code can produce are kept as kinds of    *)
(* their own: "nan" (sqrt of a negative, 0/0, anything computed from a     *)
(* nan) and "inf" (x/0 with x # 0).                                        *)
(*                                                                         *)
(* The power iteration of the centrality helper has no closed form; it is  *)
(* iterated in fixed point with One = Limb * Limb units per 1.0 (about 7   *)
(* decimal digits, one more than the tolerance of the convergence test).   *)
(***************************************************************************)
EXTENDS Integers, Sequences, FiniteSets, TLC

-----------------------------------------------------------------------------
(* Bounds of the model *)

\* largest compromise score the caller hands in
MaxC == 1
\* largest dimension of the networks drawn from the banded family
MaxN == 3
\* the power iteration computes in fixed point with Limb * Limb units per 1.0
Limb == 4096

\* connection strengths the caller hands in
Weights == {-1, 0, 1}

-----------------------------------------------------------------------------
(* Python's None and a value held in its place *)

None == <<>>
Some(v) == <<v>>
Get(o) == o[1]

-----------------------------------------------------------------------------
(* Exact arithmetic on (num/den) * sqrt(rad), with nan and inf *)

Abs(i) == IF i < 0 THEN -i ELSE i
Sign(i) == IF i < 0 THEN -1 ELSE IF i = 0 THEN 0 ELSE 1

RECURSIVE Gcd(_, _)
Gcd(a, b) == IF b = 0 THEN Abs(a) ELSE Gcd(b, a % Abs(b))

NaN == [k |-> "nan", num |-> 0, den |-> 1, rad |-> 1]
Inf == [k |-> "inf", num |-> 0, den |-> 1, rad |-> 1]
IsNum(x) == x.k = "num"

\* the canonical form of (n/d) * sqrt(r), for d # 0 and r >= 1 square-free
Canon(n, d, r) ==
    IF n = 0 THEN [k |-> "num", num |-> 0, den |-> 1, rad |-> 1]
    ELSE LET g == Gcd(n, d)
             s == Sign(d)
         IN [k |-> "num", num |-> s * (n \div g), den |-> s * (d \div g), rad |-> r]

RInt(i) == Canon(i, 1, 1)
RFrac(n, d) == Canon(n, d, 1)
Zero == RInt(0)
IsZero(x) == IsNum(x) /\ x.num = 0

\* the largest f with f*f dividing q, for q >= 1
SquarePart(q) ==
    LET fs == {f \in 1..q : f * f <= q /\ q % (f * f) = 0}
    IN CHOOSE f \in fs : \A g \in fs : g <= f

\* numpy.sqrt of an integer-valued float: nan for a negative argument
RSqrt(q) ==
    IF q < 0 THEN NaN
    ELSE IF q = 0 THEN Zero
    ELSE LET f == SquarePart(q) IN Canon(f, 1, q \div (f * f))

RNeg(x) == IF IsNum(x) THEN Canon(-x.num, x.den, x.rad) ELSE x

\* sqrt(a) * sqrt(b) = g * sqrt((a/g) * (b/g)) for square-free a, b, g = gcd(a, b)
RMul(x, y) ==
    IF x.k = "nan" \/ y.k = "nan" THEN NaN
    ELSE IF x.k = "inf" \/ y.k = "inf"
         THEN (IF IsZero(x) \/ IsZero(y) THEN NaN ELSE Inf)
    ELSE LET g == Gcd(x.rad, y.rad)
         IN Canon(x.num * y.num * g, x.den * y.den, (x.rad \div g) * (y.rad \div g))

\* 1 / ((n/d) * sqrt(r)) = (d / (n*r)) * sqrt(r)
RDiv(x, y) ==
    IF x.k = "nan" \/ y.k = "nan" THEN NaN
    ELSE IF y.k = "inf" THEN (IF x.k = "inf" THEN NaN ELSE Zero)
    ELSE IF x.k = "inf" THEN Inf
    ELSE IF IsZero(y) THEN (IF IsZero(x) THEN NaN ELSE Inf)
    ELSE RMul(x, Canon(y.den, y.num * y.rad, y.rad))

\* the sum of two values over the same square root (zero goes with any); the
\* engine never adds values over different roots, which would be kind "mixed"
RAdd(x, y) ==
    IF x.k = "nan" \/ y.k = "nan" THEN NaN
    ELSE IF x.k = "inf" \/ y.k = "inf" THEN Inf
    ELSE IF IsZero(x) THEN y
    ELSE IF IsZero(y) THEN x
    ELSE IF x.rad = y.rad
         THEN Canon(x.num * y.den + y.num * x.den, x.den * y.den, x.rad)
    ELSE [k |-> "mixed", num |-> 0, den |-> 1, rad |-> 1]

RSub(x, y) == RAdd(x, RNeg(y))

\* Python's x == 0 on a float: False for nan and inf
REqZero(x) == IsZero(x)

-----------------------------------------------------------------------------
(* numpy arrays and pandas objects *)

\* a 1-D array or Series is a sequence; a 2-D array is [shape, data], data
\* the sequence of its rows; a DataFrame is [index, columns, values]
RECURSIVE SumSeq(_)
SumSeq(s) == IF s = <<>> THEN 0 ELSE Head(s) + SumSeq(Tail(s))

RECURSIVE RSumSeq(_)
RSumSeq(s) == IF s = <<>> THEN Zero ELSE RAdd(Head(s), RSumSeq(Tail(s)))

Rows(A) == A.shape[1]
Cols(A) == A.shape[2]
At(A, i, j) == A.data[i][j]

\* A.T
Transpose(A) ==
    [shape |-> <<Cols(A), Rows(A)>>,
     data |-> [i \in 1..Cols(A) |-> [j \in 1..Rows(A) |-> At(A, j, i)]]]
\* A + B for integer arrays of one shape
MatAdd(A, B) ==
    [shape |-> A.shape,
     data |-> [i \in 1..Rows(A) |-> [j \in 1..Cols(A) |-> At(A, i, j) + At(B, i, j)]]]
\* A @ v for an integer array and an integer vector
MatVec(A, v) == [i \in 1..Rows(A) |-> SumSeq([j \in 1..Cols(A) |-> At(A, i, j) * v[j]])]
\* v @ A: the row vector times the array
VecMat(v, A) == [j \in 1..Cols(A) |-> SumSeq([i \in 1..Rows(A) |-> v[i] * At(A, i, j)])]
\* u @ v
Dot(u, v) == SumSeq([i \in 1..Len(u) |-> u[i] * v[i]])

\* numpy.array(series): a copy of the values
ArrayOfSeries(s) == s
\* numpy.array(frame): a copy of the values, the labels dropped
ArrayOfFrame(df) == [shape |-> <<Len(df.index), Len(df.columns)>>, data |-> df.values]

\* numpy.zeros(n)
zeros(m) == [i \in 1..m |-> Zero]
\* numpy.sum(E, axis=1)
RowSums(A) == [i \in 1..Rows(A) |-> SumSeq(A.data[i])]
\* numpy.mean of an integer vector: 0/0 = nan for the empty one
Mean(v) == RDiv(RInt(SumSeq(v)), RInt(Len(v)))

-----------------------------------------------------------------------------
(* State *)

VARIABLES
    compromise_vector,  \* the caller's Series handed to __init__
    adjacency_matrix,   \* the caller's DataFrame handed to __init__
    instance,           \* "unbuilt", "built", or "failed" (__init__ raised)
    C,                  \* self.C
    E,                  \* self.E
    n,                  \* self.n
    _s_score,           \* self._s_score
    _centrality,        \* self._centrality
    _gradient_s,        \* self._gradient_s
    ret,                \* what the last call returned or raised
    session_state       \* st.session_state of the application, its data apart

vars == <<compromise_vector, adjacency_matrix, instance, C, E, n,
          _s_score, _centrality, _gradient_s, ret, session_state>>

\* self.E_df is the caller's DataFrame object itself, not a copy
E_df == adjacency_matrix

\* the outcome of a computation: it returned val (computed: it ran its formula
\* rather than returning a cached value), or it raised exc with the message
\* kind err; it is the number of passes of the power iteration it made
Value(val, computed, it) ==
    [outcome |-> "ok", exc |-> "", err |-> "", val |-> val, computed |-> computed, it |-> it]
Failure(exc, err, it) ==
    [outcome |-> "raised", exc |-> exc, err |-> err, val |-> None, computed |-> TRUE, it |-> it]

\* the record of a call of op with outcome r; again: the call before it on
\* this instance was a call of op too
Call(op, r) ==
    [op |-> op, again |-> ret.op = op, outcome |-> r.outcome, exc |-> r.exc, err |-> r.err,
     val |-> r.val, computed |-> r.computed, it |-> r.it]
Returned(op, val, computed) == Call(op, Value(val, computed, 0))
Raised(op, exc, err) == Call(op, Failure(exc, err, 0))

\* the names under which scenarios are saved
ScenarioNames == {"stress", "exit"}

\* st.session_state as the script initialises it: no data loaded, no metric
\* stored, no scenario modification and no saved scenario.  The loaded data
\* are held in compromise_vector (institution_df['CompromiseScore']) and
\* adjacency_matrix (adjacency_df); institution_df and adjacency_df say
\* whether they are loaded (not None).  validated is a history field: the
\* Validate Data button found the data now loaded valid
NoSession ==
    [institution_df |-> FALSE, adjacency_df |-> FALSE,
     systemic_risk_score |-> None, risk_decomposition |-> None, centrality |-> None,
     criticality |-> None, fragility |-> None, normalized_score |-> None,
     cross_risk_matrix |-> None, risk_increment |-> None, node_degrees |-> None,
     scenario_modifications |->
         [modified_compromise |-> None, modified_adjacency |-> None,
          removed_institutions |-> {}],
     saved_scenarios |-> [name \in ScenarioNames |-> None],
     validated |-> FALSE]

\* no call yet
NoCall ==
    [op |-> "none", again |-> FALSE, outcome |-> "ok", exc |-> "", err |-> "", val |-> None,
     computed |-> FALSE, it |-> 0]

-----------------------------------------------------------------------------
(* The inputs *)

Scores == -1..MaxC
FullDims == {0, 1, 2}

\* column labels of a frame with rows labelled 1..r: the same order, the
\* reverse order, or labels that are not the row labels
ColumnLabels(c) ==
    {[j \in 1..c |-> j], [j \in 1..c |-> c + 1 - j], [j \in 1..c |-> j + 1]}

Frame(r, c, cols, vals) == [index |-> [i \in 1..r |-> i], columns |-> cols, values |-> vals]

\* every frame of up to 2 rows and 2 columns whose columns are labelled like
\* its rows, and every such frame of connections present or absent under each
\* labelling of the columns
SmallFrames ==
    UNION {{Frame(r, c, [j \in 1..c |-> j], vals) : vals \in [1..r -> [1..c -> Weights]]} :
           r \in FullDims, c \in FullDims}
    \cup UNION {{Frame(r, c, cols, vals) :
                   cols \in ColumnLabels(c), vals \in [1..r -> [1..c -> {0, 1}]]} :
                r \in FullDims, c \in FullDims}

\* the banded m x m frame: d on the diagonal, u above it, l below it
Banded(m, d, u, l) ==
    Frame(m, m, [j \in 1..m |-> j],
          [i \in 1..m |-> [j \in 1..m |-> IF i = j THEN d ELSE IF i < j THEN u ELSE l]])

\* the scores of the vectors that go with the banded frames
BandScores == {0, MaxC}

Inputs ==
    {<<cv, df>> : cv \in UNION {[1..m -> Scores] : m \in FullDims}, df \in SmallFrames}
    \cup UNION {{<<cv, Banded(m, d, u, l)>> :
                   cv \in [1..m -> BandScores], d \in Weights, u \in Weights, l \in Weights} :
                m \in 3..MaxN}

Init ==
    /\ \E in \in Inputs : compromise_vector = in[1] /\ adjacency_matrix = in[2]
    /\ instance = "unbuilt"
    /\ C = None /\ E = None /\ n = None
    /\ _s_score = None /\ _centrality = None /\ _gradient_s = None
    /\ ret = NoCall
    /\ session_state = NoSession

-----------------------------------------------------------------------------
(* SystemicRiskCalculator.__init__ and validate_inputs *)

\* ndim of numpy.array(series) and of numpy.array(frame)
NdimOfSeries == 1
NdimOfFrame == 2

\* validate_inputs comparing the lengths before it looks at the shape of E
validate_inputs_length_first(c, e, len) ==
    IF NdimOfSeries # 1 THEN "NotOneDim"
    ELSE IF len # Rows(e) THEN "ShapeMismatch"
    ELSE IF NdimOfFrame # 2 \/ Rows(e) # Cols(e) THEN "NotSquare"
    ELSE ""

\* the message kind validate_inputs raises ValueError with, "" when it passes
validate_inputs(c, e, len) ==
    IF NdimOfSeries # 1 THEN "NotOneDim"
    ELSE IF NdimOfFrame # 2 \/ Rows(e) # Cols(e) THEN "NotSquare"
    ELSE IF len # Rows(e) THEN "ShapeMismatch"
    ELSE ""

Construct ==
    /\ instance = "unbuilt"
    /\ LET c == ArrayOfSeries(compromise_vector)
           e == ArrayOfFrame(adjacency_matrix)
           err == validate_inputs(c, e, Len(c))
       IN IF err = ""
          THEN /\ instance' = "built"
               /\ C' = c /\ E' = e /\ n' = Len(c)
               /\ ret' = Returned("__init__", None, FALSE)
          ELSE /\ instance' = "failed"
               /\ UNCHANGED <<C, E, n>>
               /\ ret' = Raised("__init__", "ValueError", err)
    /\ _s_score' = None /\ _centrality' = None /\ _gradient_s' = None
    /\ UNCHANGED <<compromise_vector, adjacency_matrix, session_state>>

-----------------------------------------------------------------------------
(* Fixed-point arithmetic of the power iteration: the integer v stands for *)
(* v / One.  Products are formed limb by limb to stay within 32 bits.      *)

One == Limb * Limb

\* x * y, truncated toward zero
FMul(x, y) ==
    LET a == Abs(x)
        b == Abs(y)
        ah == a \div Limb
        al == a % Limb
        bh == b \div Limb
        bl == b % Limb
        mid == ah * bl + al * bh + (al * bl) \div Limb
    IN Sign(x) * Sign(y) * (ah * bh + mid \div Limb)

\* the integer square root of v >= 1, by Newton's iteration from r
RECURSIVE ISqrtFrom(_, _)
ISqrtFrom(v, r) ==
    LET r2 == (r + v \div r) \div 2
    IN IF r2 >= r THEN r ELSE ISqrtFrom(v, r2)
ISqrt(v) == ISqrtFrom(v, 65536)

\* one Newton step for t ~ 1/sqrt(v): t * (3 - v*t*t) / 2
InvSqrtStep(v, t) == FMul(t, 3 * One - FMul(v, FMul(t, t))) \div 2

\* 1 / sqrt(v) for v > 0
FInvSqrt(v) == InvSqrtStep(v, InvSqrtStep(v, (One \div ISqrt(v)) * Limb))

-----------------------------------------------------------------------------
(* networkx: from_pandas_adjacency and eigenvector_centrality *)

\* program constants of the call nx.eigenvector_centrality(G, max_iter, tol)
max_iter == 1000
TolInv == 1000000

Range(f) == {f[i] : i \in DOMAIN f}
PosOf(seq, lab) == CHOOSE j \in DOMAIN seq : seq[j] = lab

\* df = df[df.index] raises when a row label is no column label
ColumnsMatchIndices(df) == Range(df.index) \subseteq Range(df.columns)

\* A = df[df.index].values: the columns taken in row-label order
AlignedValues(df) ==
    LET m == Len(df.index)
    IN [shape |-> <<m, m>>,
        data |-> [i \in 1..m |->
                    [j \in 1..m |-> df.values[i][PosOf(df.columns, df.index[j])]]]]

\* the weight of the edge {i, j} of the undirected graph from_numpy_array
\* builds: one edge per non-zero entry, added in row-major order, a later one
\* for the same pair of nodes replacing the earlier one; 0 when no edge
EdgeWeight(A, i, j) ==
    LET lo == IF i <= j THEN i ELSE j
        hi == IF i <= j THEN j ELSE i
    IN IF At(A, hi, lo) # 0 THEN At(A, hi, lo) ELSE At(A, lo, hi)

\* one pass of the loop body on the iterate st.x:
\*   x = xlast.copy(); x[nbr] += xlast[n] * w for every edge; x /= norm or 1;
\*   return x if sum(abs(x - xlast)) < nnodes * tol
PowerStep(A, st) ==
    LET m == Rows(A)
        xlast == st.x
        y == [j \in 1..m |-> xlast[j] + SumSeq([i \in 1..m |-> xlast[i] * EdgeWeight(A, i, j)])]
        sq == SumSeq([j \in 1..m |-> FMul(y[j], y[j])])
        x == IF sq = 0 THEN y
             ELSE LET t == FInvSqrt(sq) IN [j \in 1..m |-> FMul(y[j], t)]
        diff == SumSeq([j \in 1..m |-> Abs(x[j] - xlast[j])])
        converged == diff <= (m * One - 1) \div TolInv
    IN [x |-> x, it |-> st.it + 1,
        status |-> IF converged THEN "converged"
                   ELSE IF st.it + 1 >= max_iter THEN "exhausted" ELSE "running"]

\* for _ in range(max_iter): the loop, run as 10 * 10 * 10 >= max_iter passes in
\* nested blocks of ten (a pass does nothing once the loop has ended)
RECURSIVE RunLoop(_, _, _)
RECURSIVE Repeat(_, _, _, _)
RunLoop(A, st, lvl) ==
    IF st.status # "running" THEN st
    ELSE IF lvl = 0 THEN PowerStep(A, st)
    ELSE Repeat(A, st, lvl - 1, 10)
Repeat(A, st, lvl, k) ==
    IF k = 0 THEN st ELSE Repeat(A, RunLoop(A, st, lvl), lvl, k - 1)

\* nx.eigenvector_centrality(G, max_iter=1000, tol=1e-6, weight='weight') on
\* the graph of A, from x = 1/nnodes for every node
eigenvector_centrality(A) ==
    LET m == Rows(A)
        st0 == [x |-> [j \in 1..m |-> One \div m], it |-> 0,
                status |-> IF max_iter > 0 THEN "running" ELSE "exhausted"]
    IN RunLoop(A, st0, 3)

\* the helper returning the last iterate when the loop has used up max_iter
calculate_eigenvector_centrality_last_iterate(df) ==
    IF ~ColumnsMatchIndices(df) THEN Failure("RuntimeError", "UnexpectedError", 0)
    ELSE IF Len(df.index) = 0 THEN Failure("RuntimeError", "UnexpectedError", 0)
    ELSE LET r == eigenvector_centrality(AlignedValues(df))
         IN Value(r.x, TRUE, r.it)

calculate_eigenvector_centrality(df) ==
    IF ~ColumnsMatchIndices(df) THEN Failure("RuntimeError", "UnexpectedError", 0)
    ELSE IF Len(df.index) = 0 THEN Failure("RuntimeError", "UnexpectedError", 0)
    ELSE LET r == eigenvector_centrality(AlignedValues(df))
         IN IF r.status = "converged"
            THEN Value(r.x, TRUE, r.it)
            ELSE Failure("RuntimeError", "ConvergenceFailure", r.it)

-----------------------------------------------------------------------------
(* The score and its gradient *)

\* (c_col.T @ E @ c_col).item()
s_squared == Dot(VecMat(C, E), C)

\* calculate_S with the square root left out
calculate_S_no_root == RInt(s_squared)
\* calculate_S taking the root of a negative quadratic form as that of zero
calculate_S_clamped == RSqrt(IF s_squared < 0 THEN 0 ELSE s_squared)
calculate_S == RSqrt(s_squared)

\* self._s_score after an access to the property S, and the value it returns
S_cache == IF _s_score = None THEN Some(calculate_S) ELSE _s_score
S == Get(S_cache)

\* the gradient formula dividing by S instead of 2 * S
GradientFormula_over_S ==
    LET m == MatVec(MatAdd(E, Transpose(E)), C)
    IN [i \in 1..Len(m) |-> RDiv(RInt(m[i]), S)]

\* the gradient formula with E @ C in place of (E + E.T) @ C / 2
GradientFormula_rows_only ==
    LET m == MatVec(E, C)
    IN [i \in 1..Len(m) |-> RDiv(RInt(m[i]), S)]

\* (self.E + self.E.T) @ self.C / (2 * self.S)
GradientFormula ==
    LET m == MatVec(MatAdd(E, Transpose(E)), C)
        twoS == RMul(RInt(2), S)
    IN [i \in 1..Len(m) |-> RDiv(RInt(m[i]), twoS)]

\* _get_gradient without the branch for S == 0
gradient_cache_no_zero_branch ==
    IF _gradient_s # None THEN _gradient_s ELSE Some(GradientFormula)

\* self._gradient_s after a call of _get_gradient, and the value it returns
gradient_cache ==
    IF _gradient_s # None THEN _gradient_s
    ELSE IF REqZero(S) THEN Some(zeros(n)) ELSE Some(GradientFormula)
_get_gradient == Get(gradient_cache)

\* self._s_score after a call of _get_gradient: S is read only on a miss
s_after_gradient == IF _gradient_s = None THEN S_cache ELSE _s_score

Built == instance = "built"
Frame_ == UNCHANGED <<compromise_vector, adjacency_matrix, instance, C, E, n, session_state>>

GetS ==
    /\ Built
    /\ _s_score' = S_cache
    /\ ret' = Returned("S", S, _s_score = None)
    /\ UNCHANGED <<_centrality, _gradient_s>> /\ Frame_

CalculateS ==
    /\ Built
    /\ ret' = Returned("calculate_S", calculate_S, TRUE)
    /\ UNCHANGED <<_s_score, _centrality, _gradient_s>> /\ Frame_

CalculateRiskDecomposition ==
    /\ Built
    /\ _gradient_s' = gradient_cache
    /\ _s_score' = s_after_gradient
    /\ ret' = LET gradient_s == _get_gradient
              IN Returned("calculate_risk_decomposition",
                          [i \in 1..n |-> RMul(RInt(C[i]), gradient_s[i])], TRUE)
    /\ UNCHANGED _centrality /\ Frame_

\* calculate_risk_increment returning D_i / C_i, the decomposition over the score
CalculateRiskIncrement_ratio ==
    /\ Built
    /\ _gradient_s' = gradient_cache
    /\ _s_score' = s_after_gradient
    /\ ret' = LET gradient_s == _get_gradient
              IN Returned("calculate_risk_increment",
                          [i \in 1..n |-> RDiv(RMul(RInt(C[i]), gradient_s[i]), RInt(C[i]))],
                          _gradient_s = None)
    /\ UNCHANGED _centrality /\ Frame_

CalculateRiskIncrement ==
    /\ Built
    /\ _gradient_s' = gradient_cache
    /\ _s_score' = s_after_gradient
    /\ ret' = Returned("calculate_risk_increment", _get_gradient, _gradient_s = None)
    /\ UNCHANGED _centrality /\ Frame_

-----------------------------------------------------------------------------
(* Centrality and criticality *)

\* calculate_eigenvector_centrality is a function of the frame alone: its
\* values on the frames the caller hands in are tabulated once
CentralityTable ==
    [df \in {in[2] : in \in {i \in Inputs : Len(i[2].index) = Len(i[2].columns)}} |->
        calculate_eigenvector_centrality(df)]
CentralityOf(df) ==
    IF df \in DOMAIN CentralityTable THEN CentralityTable[df]
    ELSE calculate_eigenvector_centrality(df)

\* calculate_centrality without the test of the cache
centrality_call_always_computes == CentralityOf(E_df)

\* self._centrality after a call of calculate_centrality: a raise leaves it
centrality_call ==
    IF _centrality = None THEN CentralityOf(E_df)
    ELSE Value(Get(_centrality), FALSE, 0)
\* calculate_centrality caching a vector of zeros when the helper raises
centrality_cache_partial ==
    IF _centrality # None THEN _centrality
    ELSE IF centrality_call.outcome = "ok" THEN Some(centrality_call.val)
    ELSE Some([i \in 1..n |-> 0])

centrality_cache ==
    IF _centrality = None /\ centrality_call.outcome = "ok"
    THEN Some(centrality_call.val) ELSE _centrality

CalculateCentrality ==
    /\ Built
    /\ _centrality' = centrality_cache
    /\ ret' = Call("calculate_centrality", centrality_call)
    /\ UNCHANGED <<_s_score, _gradient_s>> /\ Frame_

\* calculate_criticality pairing each score with the centrality of the
\* institution at the mirrored position
CalculateCriticality_mirrored ==
    /\ Built
    /\ _centrality' = centrality_cache
    /\ ret' = IF centrality_call.outcome = "ok"
              THEN Call("calculate_criticality",
                        Value([i \in 1..n |-> C[i] * centrality_call.val[n + 1 - i]], TRUE,
                              centrality_call.it))
              ELSE Call("calculate_criticality", centrality_call)
    /\ UNCHANGED <<_s_score, _gradient_s>> /\ Frame_

CalculateCriticality ==
    /\ Built
    /\ _centrality' = centrality_cache
    /\ ret' = IF centrality_call.outcome = "ok"
              THEN Call("calculate_criticality",
                        Value([i \in 1..n |-> C[i] * centrality_call.val[i]], TRUE,
                              centrality_call.it))
              ELSE Call("calculate_criticality", centrality_call)
    /\ UNCHANGED <<_s_score, _gradient_s>> /\ Frame_

-----------------------------------------------------------------------------
(* Fragility, node degrees, normalized score, cross-risk *)

calculate_node_degrees == RowSums(E)

\* calculate_fragility without the branch for a zero mean degree
calculate_fragility_no_zero_branch ==
    LET degrees == RowSums(E)
        mean_degree == Mean(degrees)
    IN RDiv(Mean([i \in 1..Len(degrees) |-> degrees[i] * degrees[i]]), mean_degree)

\* calculate_fragility leaving the diagonal of E out of the degrees
calculate_fragility_no_self_loops ==
    LET degrees == [i \in 1..Rows(E) |-> SumSeq(E.data[i]) - At(E, i, i)]
        mean_degree == Mean(degrees)
    IN IF REqZero(mean_degree) THEN Zero
       ELSE RDiv(Mean([i \in 1..Len(degrees) |-> degrees[i] * degrees[i]]), mean_degree)

calculate_fragility ==
    LET degrees == RowSums(E)
        mean_degree == Mean(degrees)
    IN IF REqZero(mean_degree) THEN Zero
       ELSE RDiv(Mean([i \in 1..Len(degrees) |-> degrees[i] * degrees[i]]), mean_degree)

\* the baseline taken as the sum of the absolute scores
s_baseline_one_norm == RInt(SumSeq([i \in 1..Len(C) |-> Abs(C[i])]))
\* the baseline taken as C'C, without the root
s_baseline_squared == RInt(Dot(C, C))
\* numpy.linalg.norm(self.C)
s_baseline == RSqrt(Dot(C, C))

\* calculate_normalized_score without the branch for a zero baseline
calculate_normalized_score_no_zero_branch == RDiv(S, s_baseline)

\* S is read only when the baseline is not zero
calculate_normalized_score == IF REqZero(s_baseline) THEN Zero ELSE RDiv(S, s_baseline)

\* pandas.DataFrame(values, index=self.E_df.index, columns=self.E_df.columns)
LabelledFrame(vals) == [index |-> E_df.index, columns |-> E_df.columns, values |-> vals]

\* calculate_cross_risk with the product taken as diag(C) @ H
calculate_cross_risk_rows_scaled ==
    LET s == S
    IN IF REqZero(s) THEN LabelledFrame([i \in 1..n |-> [j \in 1..n |-> Zero]])
       ELSE LET g == _get_gradient
                A == [i \in 1..n |-> [j \in 1..n |-> RFrac(At(E, i, j) + At(E, j, i), 2)]]
                g_outer == [i \in 1..n |-> [j \in 1..n |-> RMul(g[i], g[j])]]
                H == [i \in 1..n |-> [j \in 1..n |-> RDiv(RSub(A[i][j], g_outer[i][j]), s)]]
                diagC == [i \in 1..n |-> [j \in 1..n |-> RInt(IF i = j THEN C[i] ELSE 0)]]
                diagG == [i \in 1..n |-> [j \in 1..n |-> IF i = j THEN g[i] ELSE Zero]]
                HC == [i \in 1..n |-> [j \in 1..n |->
                          RSumSeq([k \in 1..n |-> RMul(diagC[i][k], H[k][j])])]]
            IN LabelledFrame([i \in 1..n |-> [j \in 1..n |-> RAdd(diagG[i][j], HC[i][j])]])

\* calculate_cross_risk with the Hessian taken as A / S, the outer product of
\* the gradient left out
calculate_cross_risk_no_outer ==
    LET s == S
    IN IF REqZero(s) THEN LabelledFrame([i \in 1..n |-> [j \in 1..n |-> Zero]])
       ELSE LET g == _get_gradient
                A == [i \in 1..n |-> [j \in 1..n |-> RFrac(At(E, i, j) + At(E, j, i), 2)]]
                H == [i \in 1..n |-> [j \in 1..n |-> RDiv(A[i][j], s)]]
                diagC == [i \in 1..n |-> [j \in 1..n |-> RInt(IF i = j THEN C[i] ELSE 0)]]
                diagG == [i \in 1..n |-> [j \in 1..n |-> IF i = j THEN g[i] ELSE Zero]]
                HC == [i \in 1..n |-> [j \in 1..n |->
                          RSumSeq([k \in 1..n |-> RMul(H[i][k], diagC[k][j])])]]
            IN LabelledFrame([i \in 1..n |-> [j \in 1..n |-> RAdd(diagG[i][j], HC[i][j])]])

calculate_cross_risk ==
    LET s == S
    IN IF REqZero(s) THEN LabelledFrame([i \in 1..n |-> [j \in 1..n |-> Zero]])
       ELSE LET g == _get_gradient
                A == [i \in 1..n |-> [j \in 1..n |-> RFrac(At(E, i, j) + At(E, j, i), 2)]]
                g_outer == [i \in 1..n |-> [j \in 1..n |-> RMul(g[i], g[j])]]
                H == [i \in 1..n |-> [j \in 1..n |-> RDiv(RSub(A[i][j], g_outer[i][j]), s)]]
                diagC == [i \in 1..n |-> [j \in 1..n |-> RInt(IF i = j THEN C[i] ELSE 0)]]
                diagG == [i \in 1..n |-> [j \in 1..n |-> IF i = j THEN g[i] ELSE Zero]]
                HC == [i \in 1..n |-> [j \in 1..n |->
                          RSumSeq([k \in 1..n |-> RMul(H[i][k], diagC[k][j])])]]
            IN LabelledFrame([i \in 1..n |-> [j \in 1..n |-> RAdd(diagG[i][j], HC[i][j])]])

CalculateFragility ==
    /\ Built
    /\ ret' = Returned("calculate_fragility", calculate_fragility, TRUE)
    /\ UNCHANGED <<_s_score, _centrality, _gradient_s>> /\ Frame_

CalculateNodeDegrees ==
    /\ Built
    /\ ret' = Returned("calculate_node_degrees", calculate_node_degrees, TRUE)
    /\ UNCHANGED <<_s_score, _centrality, _gradient_s>> /\ Frame_

CalculateNormalizedScore ==
    /\ Built
    /\ _s_score' = IF REqZero(s_baseline) THEN _s_score ELSE S_cache
    /\ ret' = Returned("calculate_normalized_score", calculate_normalized_score, TRUE)
    /\ UNCHANGED <<_centrality, _gradient_s>> /\ Frame_

CalculateCrossRisk ==
    /\ Built
    /\ _s_score' = S_cache
    /\ _gradient_s' = IF REqZero(S) THEN _gradient_s ELSE gradient_cache
    /\ ret' = Returned("calculate_cross_risk", calculate_cross_risk, TRUE)
    /\ UNCHANGED _centrality /\ Frame_

-----------------------------------------------------------------------------

Next ==
    \/ Construct
    \/ GetS
    \/ CalculateS
    \/ CalculateRiskDecomposition
    \/ CalculateCentrality
    \/ CalculateCriticality
    \/ CalculateRiskIncrement
    \/ CalculateFragility
    \/ CalculateNodeDegrees
    \/ CalculateNormalizedScore
    \/ CalculateCrossRisk

Spec == Init /\ [][Next]_vars

-----------------------------------------------------------------------------
(* The caller keeps the objects it handed in and may write to them *)

\* the connection strengths the caller writes
CallerWeights == {0, 1}

\* adjacency_matrix.iloc[i, j] = w, in place, after the instance was built
CallerEdit ==
    /\ Built
    /\ \E i \in 1..Len(adjacency_matrix.index), j \in 1..Len(adjacency_matrix.columns),
          w \in CallerWeights :
          adjacency_matrix' = [adjacency_matrix EXCEPT !.values[i][j] = w]
    /\ UNCHANGED <<compromise_vector, instance, C, E, n,
                   _s_score, _centrality, _gradient_s, ret, session_state>>

\* two institutions without self-connections, joined or not in each direction
CallerInputs ==
    {<<cv, Banded(2, 0, u, l)>> : cv \in {<<1, 1>>, <<0, 1>>}, u \in {0, 1}, l \in {0, 1}}

InitCaller ==
    /\ \E in \in CallerInputs : compromise_vector = in[1] /\ adjacency_matrix = in[2]
    /\ instance = "unbuilt"
    /\ C = None /\ E = None /\ n = None
    /\ _s_score = None /\ _centrality = None /\ _gradient_s = None
    /\ ret = NoCall
    /\ session_state = NoSession

NextCaller == Next \/ CallerEdit

SpecCaller == InitCaller /\ [][NextCaller]_vars

-----------------------------------------------------------------------------
(* Scenario Analysis: the Simulate Removal button of the application.  The
   session's scores and connection table are compromise_vector and
   adjacency_matrix; the handler builds two calculators of its own, one on
   the session's data and one on what is left after the removal, and shows
   the score and the fragility of both. *)

\* mask = [i not in indices_to_remove for i in range(len(institution_df))]
RemovalMask(len, indices_to_remove) == [i \in 1..len |-> i \notin indices_to_remove]

\* the positions .iloc[mask] keeps the removed positions of, in order
ILocPositions_removed(mask) ==
    LET kept == {i \in DOMAIN mask : ~mask[i]}
    IN CHOOSE p \in [1..Cardinality(kept) -> kept] :
           \A a, b \in 1..Cardinality(kept) : a < b => p[a] < p[b]

\* the positions .iloc[mask] keeps: those where mask is True, in order
ILocPositions(mask) ==
    LET kept == {i \in DOMAIN mask : mask[i]}
    IN CHOOSE p \in [1..Cardinality(kept) -> kept] :
           \A a, b \in 1..Cardinality(kept) : a < b => p[a] < p[b]

\* series.iloc[mask]
ILocSeries(s, mask) ==
    LET p == ILocPositions(mask) IN [a \in 1..Len(p) |-> s[p[a]]]

\* frame.iloc[mask, mask]
ILocFrame(df, mask) ==
    LET p == ILocPositions(mask)
    IN [index |-> [a \in 1..Len(p) |-> df.index[p[a]]],
        columns |-> [b \in 1..Len(p) |-> df.columns[p[b]]],
        values |-> [a \in 1..Len(p) |-> [b \in 1..Len(p) |-> df.values[p[a]][p[b]]]]]

\* SystemicRiskCalculator(c, e).S of a fresh calculator: calculate_S
FreshS(c, e) == RSqrt(Dot(VecMat(c, e), c))

\* a fresh calculator's fragility taken as the sum of the squared degrees over
\* the mean degree
FreshFragility_sum_of_squares(e) ==
    LET degrees == RowSums(e)
        mean_degree == Mean(degrees)
    IN IF REqZero(mean_degree) THEN Zero
       ELSE RDiv(RInt(SumSeq([i \in 1..Len(degrees) |-> degrees[i] * degrees[i]])), mean_degree)

\* SystemicRiskCalculator(c, e).calculate_fragility() of a fresh calculator
FreshFragility(e) ==
    LET degrees == RowSums(e)
        mean_degree == Mean(degrees)
    IN IF REqZero(mean_degree) THEN Zero
       ELSE RDiv(Mean([i \in 1..Len(degrees) |-> degrees[i] * degrees[i]]), mean_degree)

\* what the handler shows for the removal of the institutions at the
\* positions indices_to_remove, or the error it shows when a constructor
\* raises
RemovalImpact(indices_to_remove) ==
    LET mask == RemovalMask(Len(compromise_vector), indices_to_remove)
        c == ArrayOfSeries(compromise_vector)
        e == ArrayOfFrame(adjacency_matrix)
        err == validate_inputs(c, e, Len(c))
        modified_compromise == ILocSeries(compromise_vector, mask)
        modified_adjacency == ILocFrame(adjacency_matrix, mask)
        mc == ArrayOfSeries(modified_compromise)
        me == ArrayOfFrame(modified_adjacency)
        merr == validate_inputs(mc, me, Len(mc))
    IN IF err # "" THEN Failure("ValueError", err, 0)
       ELSE IF merr # "" THEN Failure("ValueError", merr, 0)
       ELSE Value([removed |-> indices_to_remove,
                   original_S |-> FreshS(c, e),
                   original_fragility |-> FreshFragility(e),
                   modified_compromise |-> modified_compromise,
                   modified_adjacency |-> modified_adjacency,
                   modified_S |-> FreshS(mc, me),
                   modified_fragility |-> FreshFragility(me)], TRUE, 0)

\* the button pressed with at least one institution selected (with none
\* selected the handler only warns)
SimulateRemoval ==
    /\ \E indices_to_remove \in SUBSET (1..Len(compromise_vector)) :
          /\ indices_to_remove # {}
          /\ ret' = Call("simulate_removal", RemovalImpact(indices_to_remove))
    /\ UNCHANGED <<compromise_vector, adjacency_matrix, instance, C, E, n,
                   _s_score, _centrality, _gradient_s, session_state>>

\* the session's data: the inputs of the engine, and every three institutions
\* of score 0 or 1 with connections present or absent
RemovalInputs ==
    Inputs \cup {<<cv, Frame(3, 3, <<1, 2, 3>>, vals)>> :
                   cv \in [1..3 -> {0, 1}], vals \in [1..3 -> [1..3 -> {0, 1}]]}

InitRemoval ==
    /\ \E in \in RemovalInputs : compromise_vector = in[1] /\ adjacency_matrix = in[2]
    /\ instance = "unbuilt"
    /\ C = None /\ E = None /\ n = None
    /\ _s_score = None /\ _centrality = None /\ _gradient_s = None
    /\ ret = NoCall
    /\ session_state = NoSession

NextRemoval == SimulateRemoval

SpecRemoval == InitRemoval /\ [][NextRemoval]_vars

-----------------------------------------------------------------------------
(* The application: Data Upload and Results Dashboard pages *)

\* the sample dataset (its files are not part of the sources): institutions
\* and a connection table that pass validation
SampleScores == <<0, 1, 1>>
SampleFrame == Banded(3, 1, 1, 0)

\* the CompromiseScore columns a user uploads
UploadedScores == {<<1, 1>>, <<-1, 1>>, <<1, 0, 1>>}

\* the connection tables a user uploads: two that pass validation, one with
\* negative entries, and one whose column labels are not its row labels
UploadedFrames ==
    {Banded(2, 1, 1, 1), Banded(2, 1, 1, 0), Banded(2, -1, -1, -1),
     Frame(2, 2, <<2, 3>>, <<<<1, 1>>, <<1, 1>>>>)}

DataLoaded == session_state.institution_df /\ session_state.adjacency_df

\* the engine variables hold the calculator a handler builds; a handler that
\* builds none leaves them
Engine_ == UNCHANGED <<instance, C, E, n, _s_score, _centrality, _gradient_s>>

\* Load Sample Data
LoadSampleData ==
    /\ compromise_vector' = SampleScores
    /\ adjacency_matrix' = SampleFrame
    /\ session_state' = [session_state EXCEPT !.institution_df = TRUE, !.adjacency_df = TRUE,
                                              !.validated = FALSE]
    /\ ret' = Returned("load_sample_data", None, FALSE)
    /\ Engine_

\* the institution file uploader holding a file: load_data(institution_file)
UploadInstitutionData ==
    /\ \E scores \in UploadedScores : compromise_vector' = scores
    /\ session_state' = [session_state EXCEPT !.institution_df = TRUE, !.validated = FALSE]
    /\ ret' = Returned("upload_institution_data", None, FALSE)
    /\ UNCHANGED adjacency_matrix /\ Engine_

\* the adjacency file uploader holding a file: load_data(adjacency_file, True)
UploadAdjacencyMatrix ==
    /\ \E df \in UploadedFrames : adjacency_matrix' = df
    /\ session_state' = [session_state EXCEPT !.adjacency_df = TRUE, !.validated = FALSE]
    /\ ret' = Returned("upload_adjacency_matrix", None, FALSE)
    /\ UNCHANGED compromise_vector /\ Engine_

\* validate_institution_data: the required columns are there, no score is
\* negative
validate_institution_data(scores) == \A i \in DOMAIN scores : scores[i] >= 0

\* validate_adjacency_matrix: square, no negative value, a diagonal of ones
validate_adjacency_matrix(df) ==
    /\ Len(df.index) = Len(df.columns)
    /\ \A i \in 1..Len(df.index), j \in 1..Len(df.columns) : df.values[i][j] >= 0
    /\ \A i \in 1..Len(df.index) : df.values[i][i] = 1

\* Validate Data: the button shows the verdicts and stores nothing
ValidateData ==
    /\ session_state' =
         [session_state EXCEPT !.validated =
             /\ DataLoaded
             /\ validate_institution_data(compromise_vector)
             /\ validate_adjacency_matrix(adjacency_matrix)]
    /\ ret' = Returned("validate_data",
                       <<session_state.institution_df
                           /\ validate_institution_data(compromise_vector),
                         session_state.adjacency_df
                           /\ validate_adjacency_matrix(adjacency_matrix)>>, TRUE)
    /\ UNCHANGED <<compromise_vector, adjacency_matrix>> /\ Engine_

\* what a handler hands back: the arguments of every SystemicRiskCalculator(...)
\* call it made, in order, and what it shows (an exception it catches is shown
\* as an error and ends it)
HandlerDone(engines, shown) == Value([engines |-> engines, shown |-> shown], TRUE, 0)
HandlerError(exc, err, engines) ==
    [outcome |-> "raised", exc |-> exc, err |-> err,
     val |-> [engines |-> engines, shown |-> None], computed |-> TRUE, it |-> 0]

\* _get_gradient() of a calculator just built on (c, e)
FreshGradient(c, e) ==
    LET s == FreshS(c, e)
        m == MatVec(MatAdd(e, Transpose(e)), c)
        twoS == RMul(RInt(2), s)
    IN IF REqZero(s) THEN zeros(Len(c))
       ELSE [i \in 1..Len(m) |-> RDiv(RInt(m[i]), twoS)]

\* calculate_normalized_score() of a calculator just built on (c, e)
FreshNormalizedScore(c, e) ==
    LET baseline == RSqrt(Dot(c, c))
    IN IF REqZero(baseline) THEN Zero ELSE RDiv(FreshS(c, e), baseline)

\* calculate_cross_risk() of a calculator just built on (c, df)
FreshCrossRisk(c, df) ==
    LET e == ArrayOfFrame(df)
        m == Len(c)
        s == FreshS(c, e)
        labelled(vals) == [index |-> df.index, columns |-> df.columns, values |-> vals]
    IN IF REqZero(s) THEN labelled([i \in 1..m |-> [j \in 1..m |-> Zero]])
       ELSE LET g == FreshGradient(c, e)
                A == [i \in 1..m |-> [j \in 1..m |-> RFrac(At(e, i, j) + At(e, j, i), 2)]]
                H == [i \in 1..m |-> [j \in 1..m |->
                         RDiv(RSub(A[i][j], RMul(g[i], g[j])), s)]]
            IN labelled([i \in 1..m |-> [j \in 1..m |->
                  RAdd(IF i = j THEN g[i] ELSE Zero, RMul(H[i][j], RInt(c[j])))]])

\* Calculate All Metrics: the handler builds a calculator on the loaded data
\* and stores its outputs one after the other; an exception ends it where it
\* is raised and is shown as an error
CalculateAllMetrics ==
    /\ DataLoaded
    /\ LET c == ArrayOfSeries(compromise_vector)
           e == ArrayOfFrame(adjacency_matrix)
           err == validate_inputs(c, e, Len(c))
           engines == <<<<compromise_vector, adjacency_matrix>>>>
           g == FreshGradient(c, e)
           cent == CentralityOf(adjacency_matrix)
           first_two ==
               [session_state EXCEPT
                  !.systemic_risk_score = Some(FreshS(c, e)),
                  !.risk_decomposition = Some([i \in 1..Len(c) |-> RMul(RInt(c[i]), g[i])])]
       IN IF err # ""
          THEN /\ session_state' = session_state
               /\ ret' = Call("calculate_all_metrics", HandlerError("ValueError", err, engines))
          ELSE IF cent.outcome # "ok"
          THEN /\ session_state' = first_two
               /\ ret' = Call("calculate_all_metrics",
                              HandlerError(cent.exc, cent.err, engines))
          ELSE /\ session_state' =
                     [first_two EXCEPT
                        !.centrality = Some(cent.val),
                        !.criticality = Some([i \in 1..Len(c) |-> c[i] * cent.val[i]]),
                        !.fragility = Some(FreshFragility(e)),
                        !.normalized_score = Some(FreshNormalizedScore(c, e)),
                        !.cross_risk_matrix = Some(FreshCrossRisk(c, adjacency_matrix)),
                        !.risk_increment = Some(g),
                        !.node_degrees = Some(RowSums(e))]
               /\ ret' = Call("calculate_all_metrics", HandlerDone(engines, None))
    /\ UNCHANGED <<compromise_vector, adjacency_matrix>> /\ Engine_

InitApp ==
    /\ compromise_vector = <<>> /\ adjacency_matrix = Frame(0, 0, <<>>, <<>>)
    /\ instance = "unbuilt"
    /\ C = None /\ E = None /\ n = None
    /\ _s_score = None /\ _centrality = None /\ _gradient_s = None
    /\ ret = NoCall
    /\ session_state = NoSession

NextApp ==
    \/ LoadSampleData
    \/ UploadInstitutionData
    \/ UploadAdjacencyMatrix
    \/ ValidateData
    \/ CalculateAllMetrics

SpecApp == InitApp /\ [][NextApp]_vars

-----------------------------------------------------------------------------
(* The application: Scenario Analysis and Compare Scenarios pages.  Every
   interaction reruns the page's script from its top: the three tabs are run
   one after the other, each storing into scenario_modifications before its
   buttons are looked at, and an exception outside a try block ends the run
   where it is raised, what was stored before it staying stored. *)

\* the values a score slider is moved to, and a connection slider
SliderValues == {0}
ConnectionValues == {0}

\* institution_df['Name'], an institution's name being its position
Names == 1..Len(compromise_vector)

Mods == session_state.scenario_modifications

\* the first tab down to its sliders: modified_compromise is initialised from
\* the loaded scores when it is None, and read back slider by slider (a
\* slider shows the stored entry unless the user moves it)
Tab1(mods) ==
    [mods EXCEPT !.modified_compromise = IF @ = None THEN Some(compromise_vector) ELSE @]
\* the exception of the slider loop, "" for none: modified_scores.iloc[idx] for
\* an institution past the stored entries, or a stored entry under the
\* slider's min_value = 0.0
Tab1Error(mods) ==
    LET modified_scores == Get(Tab1(mods).modified_compromise)
        failing == {idx \in Names : idx > Len(modified_scores) \/ modified_scores[idx] < 0}
    IN IF failing = {} THEN ""
       ELSE IF (CHOOSE idx \in failing : \A other \in failing : idx <= other)
                  > Len(modified_scores)
       THEN "IndexError"
       ELSE "StreamlitAPIException"
Tab1Raises(mods) == Tab1Error(mods) # ""

\* the second tab: st.multiselect(options = names, default = the stored list)
\* raises when a stored name is no option
Tab2Raises(mods) == ~(mods.removed_institutions \subseteq Names)

\* the third tab down to its sliders: modified_adjacency is initialised from
\* the loaded table when it is None; the first institution is selected in both
\* boxes and modified_adj.iloc[from_idx, to_idx] is read
Tab3(mods) ==
    [mods EXCEPT !.modified_adjacency = IF @ = None THEN Some(adjacency_matrix) ELSE @]
Tab3Raises(mods) ==
    LET modified_adj == Get(Tab3(mods).modified_adjacency)
    IN Names = {} \/ Len(modified_adj.index) = 0 \/ Len(modified_adj.columns) = 0

\* the run from the second tab on, and the whole run
FromTab2(mods) == IF Tab2Raises(mods) THEN mods ELSE Tab3(mods)
RenderScenario(mods) == IF Tab1Raises(mods) THEN Tab1(mods) ELSE FromTab2(Tab1(mods))
RenderRaises(mods) ==
    IF Tab1Raises(mods) THEN Tab1Error(mods)
    ELSE IF Tab2Raises(Tab1(mods)) THEN "StreamlitAPIException"
    ELSE IF Tab3Raises(Tab1(mods)) THEN "IndexError"
    ELSE ""

Stored(mods) == [session_state EXCEPT !.scenario_modifications = mods]
Data_ == UNCHANGED <<compromise_vector, adjacency_matrix>>

\* the message kind SystemicRiskCalculator(scores, df) raises, "" for none
ConstructError(scores, df) ==
    validate_inputs(ArrayOfSeries(scores), ArrayOfFrame(df), Len(ArrayOfSeries(scores)))

\* the page opened, or rerun by a widget that stores nothing
VisitScenarioAnalysis ==
    /\ DataLoaded
    /\ session_state' = Stored(RenderScenario(Mods))
    /\ ret' = IF RenderRaises(Mods) = "" THEN Returned("scenario_analysis", None, FALSE)
              ELSE Raised("scenario_analysis", RenderRaises(Mods), "")
    /\ Data_ /\ Engine_

\* a score slider moved
AdjustSlider ==
    /\ DataLoaded /\ ~Tab1Raises(Mods)
    /\ \E idx \in Names, v \in SliderValues :
          session_state' =
             Stored(FromTab2([Tab1(Mods) EXCEPT
                                !.modified_compromise = Some([Get(@) EXCEPT ![idx] = v])]))
    /\ ret' = Returned("adjust_slider", None, FALSE)
    /\ Data_ /\ Engine_

\* Reset to Original Scores, and the rerun it asks for
ResetScores ==
    /\ DataLoaded /\ ~Tab1Raises(Mods)
    /\ session_state' =
          Stored(RenderScenario([Tab1(Mods) EXCEPT
                                   !.modified_compromise = Some(compromise_vector)]))
    /\ ret' = Returned("reset_whatif", None, FALSE)
    /\ Data_ /\ Engine_

\* Calculate Impact: a calculator on the loaded data, then one on the modified
\* scores over the loaded table; S, decomposition, criticality and cross-risk
\* of each
CalculateImpact ==
    /\ DataLoaded /\ ~Tab1Raises(Mods)
    /\ LET modified_scores == Get(Tab1(Mods).modified_compromise)
           original == <<compromise_vector, adjacency_matrix>>
           modified == <<modified_scores, adjacency_matrix>>
           cent == CentralityOf(adjacency_matrix)
       IN ret' = Call("calculate_impact",
                   IF ConstructError(original[1], original[2]) # ""
                   THEN HandlerError("ValueError", ConstructError(original[1], original[2]),
                                     <<original>>)
                   ELSE IF cent.outcome # "ok"
                   THEN HandlerError(cent.exc, cent.err, <<original>>)
                   ELSE IF ConstructError(modified[1], modified[2]) # ""
                   THEN HandlerError("ValueError", ConstructError(modified[1], modified[2]),
                                     <<original, modified>>)
                   ELSE HandlerDone(<<original, modified>>,
                          [original_S |-> FreshS(ArrayOfSeries(original[1]),
                                                 ArrayOfFrame(original[2])),
                           modified_S |-> FreshS(ArrayOfSeries(modified[1]),
                                                 ArrayOfFrame(modified[2]))]))
    /\ session_state' = Stored(FromTab2(Tab1(Mods)))
    /\ Data_ /\ Engine_

\* the institutions to remove selected in the second tab
SelectRemoved ==
    /\ DataLoaded /\ ~Tab1Raises(Mods) /\ ~Tab2Raises(Tab1(Mods))
    /\ \E selected_to_remove \in SUBSET Names :
          session_state' =
             Stored(Tab3([Tab1(Mods) EXCEPT !.removed_institutions = selected_to_remove]))
    /\ ret' = Returned("remove_institutions", None, FALSE)
    /\ Data_ /\ Engine_

\* Update Connection with a pair of institutions selected and the connection
\* slider moved, and the rerun it asks for
UpdateConnection ==
    /\ DataLoaded /\ RenderRaises(Mods) = ""
    /\ LET mods == RenderScenario(Mods)
           modified_adj == Get(mods.modified_adjacency)
       IN \E from_idx \in Names, to_idx \in Names, new_value \in ConnectionValues :
             /\ from_idx <= Len(modified_adj.index) /\ to_idx <= Len(modified_adj.columns)
             /\ session_state' =
                   Stored(RenderScenario([mods EXCEPT !.modified_adjacency =
                       Some([modified_adj EXCEPT !.values[from_idx][to_idx] = new_value])]))
    /\ ret' = Returned("update_connection", None, FALSE)
    /\ Data_ /\ Engine_

\* Reset Network to Original, and the rerun it asks for
ResetNetwork ==
    /\ DataLoaded /\ RenderRaises(Mods) = ""
    /\ session_state' =
          Stored(RenderScenario([RenderScenario(Mods) EXCEPT
                                   !.modified_adjacency = Some(adjacency_matrix)]))
    /\ ret' = Returned("reset_network", None, FALSE)
    /\ Data_ /\ Engine_

\* Calculate Network Modification Impact: a calculator on the loaded data, then
\* one on the loaded scores over the modified table; S, normalized score,
\* fragility and cross-risk of each
CalculateNetworkModificationImpact ==
    /\ DataLoaded /\ RenderRaises(Mods) = ""
    /\ LET modified_adj == Get(RenderScenario(Mods).modified_adjacency)
           original == <<compromise_vector, adjacency_matrix>>
           modified == <<compromise_vector, modified_adj>>
           shown(eng) == [S |-> FreshS(ArrayOfSeries(eng[1]), ArrayOfFrame(eng[2])),
                          normalized |-> FreshNormalizedScore(ArrayOfSeries(eng[1]),
                                                              ArrayOfFrame(eng[2])),
                          fragility |-> FreshFragility(ArrayOfFrame(eng[2]))]
       IN ret' = Call("calc_network_impact",
                   IF ConstructError(original[1], original[2]) # ""
                   THEN HandlerError("ValueError", ConstructError(original[1], original[2]),
                                     <<original>>)
                   ELSE IF ConstructError(modified[1], modified[2]) # ""
                   THEN HandlerError("ValueError", ConstructError(modified[1], modified[2]),
                                     <<original, modified>>)
                   ELSE HandlerDone(<<original, modified>>,
                                    <<shown(original), shown(modified)>>))
    /\ session_state' = Stored(RenderScenario(Mods))
    /\ Data_ /\ Engine_

\* Save Scenario under a name: copies of the loaded data and of the three
\* modifications
SaveScenario ==
    /\ DataLoaded /\ RenderRaises(Mods) = ""
    /\ \E scenario_name \in ScenarioNames :
          session_state' =
             [Stored(RenderScenario(Mods)) EXCEPT !.saved_scenarios[scenario_name] =
                 Some([institution_df |-> compromise_vector,
                       adjacency_df |-> adjacency_matrix,
                       modifications |-> RenderScenario(Mods)])]
    /\ ret' = Returned("save_scenario", None, FALSE)
    /\ Data_ /\ Engine_

\* the inputs Compare Scenarios builds the calculator of a saved scenario on
ScenarioEngine(scenario) ==
    <<IF scenario.modifications.modified_compromise # None
      THEN Get(scenario.modifications.modified_compromise)
      ELSE scenario.institution_df,
      IF scenario.modifications.modified_adjacency # None
      THEN Get(scenario.modifications.modified_adjacency)
      ELSE scenario.adjacency_df>>

\* Compare Scenarios with a saved scenario selected in each of two boxes: a
\* calculator per selected scenario, in order; S, normalized score, fragility
\* and the number of institutions of each
CompareScenarios ==
    /\ \E scenario_1, scenario_2 \in ScenarioNames :
          /\ session_state.saved_scenarios[scenario_1] # None
          /\ session_state.saved_scenarios[scenario_2] # None
          /\ LET first == ScenarioEngine(Get(session_state.saved_scenarios[scenario_1]))
                 second == ScenarioEngine(Get(session_state.saved_scenarios[scenario_2]))
                 row(nm, eng) ==
                     [Scenario |-> nm,
                      S |-> FreshS(ArrayOfSeries(eng[1]), ArrayOfFrame(eng[2])),
                      normalized |-> FreshNormalizedScore(ArrayOfSeries(eng[1]),
                                                          ArrayOfFrame(eng[2])),
                      fragility |-> FreshFragility(ArrayOfFrame(eng[2])),
                      num_institutions |-> Len(eng[1])]
             IN ret' = Call("compare_scenarios",
                   [(IF ConstructError(first[1], first[2]) # ""
                     THEN HandlerError("ValueError", ConstructError(first[1], first[2]),
                                       <<first>>)
                     ELSE IF ConstructError(second[1], second[2]) # ""
                     THEN HandlerError("ValueError", ConstructError(second[1], second[2]),
                                       <<first, second>>)
                     ELSE HandlerDone(<<first, second>>,
                                      <<row(scenario_1, first), row(scenario_2, second)>>))
                    EXCEPT !.val = @ @@ [selected |-> <<scenario_1, scenario_2>>]])
    /\ UNCHANGED session_state
    /\ Data_ /\ Engine_

\* editing the scenario while data are loaded and loaded again
NextScenario ==
    \/ LoadSampleData
    \/ UploadInstitutionData
    \/ UploadAdjacencyMatrix
    \/ VisitScenarioAnalysis
    \/ AdjustSlider
    \/ ResetScores
    \/ CalculateImpact
    \/ UpdateConnection
    \/ ResetNetwork
    \/ CalculateNetworkModificationImpact

SpecScenario == InitApp /\ [][NextScenario]_vars

\* saving scenarios of the sample data and comparing them
NextCompare ==
    \/ LoadSampleData
    \/ VisitScenarioAnalysis
    \/ AdjustSlider
    \/ SelectRemoved
    \/ SaveScenario
    \/ CompareScenarios

SpecCompare == InitApp /\ [][NextCompare]_vars

-----------------------------------------------------------------------------
(* The claims: what they speak of *)

\* Q = sum over i, j of C_i * E_ij * C_j, term by term
QuadraticForm ==
    SumSeq([i \in 1..n |-> SumSeq([j \in 1..n |-> C[i] * At(E, i, j) * C[j]])])

\* ((E + E^T) C)_i, term by term
SymmetricProduct(i) == SumSeq([j \in 1..n |-> (At(E, i, j) + At(E, j, i)) * C[j]])

Symmetric == \A i, j \in 1..n : At(E, i, j) = At(E, j, i)

LenC == Len(compromise_vector)
RowsE == Len(adjacency_matrix.index)
ColsE == Len(adjacency_matrix.columns)
Constructed == instance # "unbuilt"
InitRaised(err) ==
    /\ instance = "failed"
    /\ ret.op = "__init__" /\ ret.outcome = "raised" /\ ret.exc = "ValueError" /\ ret.err = err

-----------------------------------------------------------------------------
\* C1: for every accepted (C, E) whose quadratic form Q is non-negative, the S
\* property and calculate_S() both return the non-negative square root of Q
\* (S >= 0 and S * S = Q), for symmetric and asymmetric E alike
C1_ScoreIsRootOfQ ==
    (Built /\ ret.op \in {"S", "calculate_S"} /\ QuadraticForm >= 0) =>
        /\ ret.outcome = "ok"
        /\ IsNum(ret.val) /\ ret.val.num >= 0
        /\ RMul(ret.val, ret.val) = RInt(QuadraticForm)

\* the S property has returned sqrt(3) for an asymmetric E
C1_Witness ==
    /\ Built /\ ret.op = "S" /\ ret.outcome = "ok"
    /\ QuadraticForm = 3 /\ ~Symmetric

\* C2: for every accepted (C, E) with a real score, the entries of
\* calculate_risk_decomposition() sum to the score S, and whenever S > 0 the
\* sum over i of C_i * ((E + E^T) C)_i is 2 * S * S
C2_DecompositionSumsToS ==
    (Built /\ ret.op = "calculate_risk_decomposition" /\ QuadraticForm >= 0) =>
        /\ ret.outcome = "ok" /\ Len(ret.val) = n
        /\ _s_score # None
        /\ RSumSeq(ret.val) = Get(_s_score)
        /\ QuadraticForm > 0 =>
             RInt(SumSeq([i \in 1..n |-> C[i] * SymmetricProduct(i)]))
                = RMul(RInt(2), RMul(Get(_s_score), Get(_s_score)))

\* a decomposition with two non-zero shares of the score sqrt(2), E asymmetric
C2_Witness ==
    /\ Built /\ ret.op = "calculate_risk_decomposition"
    /\ QuadraticForm = 2 /\ ~Symmetric /\ n = 2
    /\ \A i \in 1..n : ~IsZero(ret.val[i])

\* C3, as amended: construction fails with NotSquare for every E whose row
\* count differs from its column count (whatever the length of C), fails with
\* ShapeMismatch for every square E with len(C) # rows(E), and succeeds for
\* every (C, E) with len(C) = rows(E) = cols(E)
C3_ConstructionOutcome ==
    Constructed =>
        /\ RowsE # ColsE => InitRaised("NotSquare")
        /\ (RowsE = ColsE /\ LenC # RowsE) => InitRaised("ShapeMismatch")
        /\ (RowsE = ColsE /\ LenC = RowsE) => (instance = "built" /\ n = LenC)

\* construction has failed with NotSquare although len(C) # rows(E) as well
C3_Witness ==
    /\ InitRaised("NotSquare")
    /\ RowsE # ColsE /\ LenC # RowsE

\* C3, as stated: ShapeMismatch for every (C, E) with len(C) # rows(E),
\* NotSquare for every E with rows(E) # cols(E), success when all three agree
C3_AsStated ==
    Constructed =>
        /\ LenC # RowsE => InitRaised("ShapeMismatch")
        /\ RowsE # ColsE => InitRaised("NotSquare")
        /\ (RowsE = ColsE /\ LenC = RowsE) => instance = "built"

\* C4: no engine instance exists with n = 0
C4_NoEmptyInstance == Built => n >= 1

\* C5: the gradient is (E + E^T) C / (2S) whenever S # 0 (G_i * 2S is the
\* i-th entry of (E + E^T) C; every entry nan when S is nan), the zero vector
\* of length n whenever S = 0, and no entry comes from a division by zero
C5_GradientPolicy ==
    (Built /\ ret.op = "calculate_risk_increment") =>
        /\ ret.outcome = "ok" /\ Len(ret.val) = n
        /\ _s_score # None
        /\ QuadraticForm > 0 =>
             \A i \in 1..n :
                RMul(ret.val[i], RMul(RInt(2), Get(_s_score))) = RInt(SymmetricProduct(i))
        /\ QuadraticForm = 0 => \A i \in 1..n : ret.val[i] = Zero
        /\ QuadraticForm < 0 => \A i \in 1..n : ret.val[i] = NaN
        /\ \A i \in 1..n : ret.val[i].k # "inf" /\ (QuadraticForm >= 0 => IsNum(ret.val[i]))

\* S = 0 with a non-zero C and a non-zero (E + E^T) C: the formula would
\* divide a non-zero number by zero
C5_Witness ==
    /\ Built /\ ret.op = "calculate_risk_increment"
    /\ QuadraticForm = 0
    /\ \E i \in 1..n : C[i] # 0
    /\ \E i \in 1..n : SymmetricProduct(i) # 0

\* C6: for every square E, if C is the all-zero vector then S = 0, the
\* gradient/risk increment and the decomposition are the zero vector, the
\* normalized score is 0, the cross-risk matrix is the n x n zero matrix, and
\* none of these calls raises
C6_DegenerateCompromise ==
    (Built /\ \A i \in 1..n : C[i] = 0) =>
        /\ ret.op \in {"S", "calculate_S", "calculate_risk_increment",
                       "calculate_risk_decomposition", "calculate_normalized_score",
                       "calculate_cross_risk"} => ret.outcome = "ok"
        /\ ret.op \in {"S", "calculate_S", "calculate_normalized_score"} => ret.val = Zero
        /\ ret.op \in {"calculate_risk_increment", "calculate_risk_decomposition"} =>
             ret.val = [i \in 1..n |-> Zero]
        /\ ret.op = "calculate_cross_risk" =>
             ret.val.values = [i \in 1..n |-> [j \in 1..n |-> Zero]]
        /\ _s_score # None => Get(_s_score) = Zero
        /\ _gradient_s # None => Get(_gradient_s) = [i \in 1..n |-> Zero]

\* the cross-risk matrix of two institutions with zero scores in a network
\* that has connections
C6_Witness ==
    /\ Built /\ n = 2 /\ \A i \in 1..n : C[i] = 0
    /\ ret.op = "calculate_cross_risk"
    /\ \E i, j \in 1..n : At(E, i, j) # 0

Memoized == {"S", "calculate_risk_increment", "calculate_centrality"}
Recomputed ==
    {"calculate_S", "calculate_risk_decomposition", "calculate_criticality",
     "calculate_fragility", "calculate_node_degrees", "calculate_normalized_score",
     "calculate_cross_risk"}
CentralityOps == {"calculate_centrality", "calculate_criticality"}

OwnFrame == [E_df EXCEPT !.values = E.data]

\* C8: a change the caller makes to the adjacency-matrix object after
\* construction changes no output: the centrality vector the instance holds
\* is the centrality of the matrix S and fragility are computed from, and a
\* centrality call fails only if it fails on that matrix
C8_OutputsFromOwnCopy ==
    Built =>
        /\ _centrality # None => Get(_centrality) = CentralityOf(OwnFrame).val
        /\ (ret.op \in CentralityOps /\ ret.outcome = "raised") =>
             CentralityOf(OwnFrame).outcome = "raised"

\* x is within tolerance of its own image under one pass of the iteration
Stationary(x) ==
    PowerStep(AlignedValues(E_df), [x |-> x, it |-> 0, status |-> "running"]).status
        = "converged"

\* C9: when the power iteration has made its 1000 passes without the change
\* between iterates falling below the tolerance, calculate_centrality and
\* calculate_criticality raise ConvergenceFailure; a centrality vector is
\* returned (and held) only if the tolerance was reached within the budget
C9_ConvergenceFailure ==
    Built =>
        /\ _centrality # None => Stationary(Get(_centrality))
        /\ (ret.op \in CentralityOps /\ ret.outcome = "ok") => ret.it \in 0..max_iter
        /\ (ret.op = "calculate_centrality" /\ ret.outcome = "ok" /\ ret.computed) =>
             (ret.it \in 1..max_iter /\ Stationary(ret.val))
        /\ (ret.op \in CentralityOps /\ ret.outcome = "raised") =>
             /\ ret.exc = "RuntimeError" /\ _centrality = None
             /\ ret.it > 0 => (ret.it = max_iter /\ ret.err = "ConvergenceFailure")
             /\ ret.err = "ConvergenceFailure" => ret.it = max_iter

\* calculate_criticality has raised ConvergenceFailure after 1000 passes
C9_Witness ==
    /\ Built /\ ret.op = "calculate_criticality" /\ ret.outcome = "raised"
    /\ ret.err = "ConvergenceFailure" /\ ret.it = max_iter

FailedCentrality ==
    /\ Built /\ ret.op \in CentralityOps
    /\ ret.outcome = "raised" /\ ret.err = "ConvergenceFailure"

\* C10: a centrality or criticality call that fails with ConvergenceFailure
\* changes no field of the instance and leaves no centrality cached, and every
\* other output is returned by the call that follows the failure
C10_FailureIsLocal ==
    /\ [](FailedCentrality => _centrality = None)
    /\ [][FailedCentrality' => UNCHANGED <<C, E, n, _s_score, _gradient_s, _centrality>>]_vars
    /\ [][(FailedCentrality /\ ret'.op \notin CentralityOps) => ret'.outcome = "ok"]_vars

\* the call has failed on an instance that holds a score and a gradient
C10_Witness ==
    /\ FailedCentrality /\ ret.op = "calculate_centrality"
    /\ _s_score # None /\ _gradient_s # None /\ _centrality = None

AllNaN(v) == \A i \in DOMAIN v : v[i] = NaN

\* C11: when the quadratic form is negative the score is not-a-number and
\* nothing raises; the nan is cached and reaches every entry of the gradient,
\* of the decomposition and of the cross-risk matrix, and the normalized score
C11_NaNPropagates ==
    (Built /\ QuadraticForm < 0) =>
        /\ ret.op \in {"S", "calculate_S", "calculate_risk_increment",
                       "calculate_risk_decomposition", "calculate_normalized_score",
                       "calculate_cross_risk"} => ret.outcome = "ok"
        /\ ret.op \in {"S", "calculate_S", "calculate_normalized_score"} => ret.val = NaN
        /\ ret.op \in {"S", "calculate_risk_increment", "calculate_risk_decomposition",
                       "calculate_normalized_score", "calculate_cross_risk"} =>
             _s_score = Some(NaN)
        /\ _s_score # None => Get(_s_score) = NaN
        /\ ret.op \in {"calculate_risk_increment", "calculate_risk_decomposition"} =>
             (Len(ret.val) = n /\ AllNaN(ret.val))
        /\ ret.op \in {"calculate_risk_increment", "calculate_risk_decomposition",
                       "calculate_cross_risk"} =>
             (_gradient_s # None /\ Len(Get(_gradient_s)) = n /\ AllNaN(Get(_gradient_s)))
        /\ ret.op = "calculate_cross_risk" =>
             /\ Len(ret.val.values) = n
             /\ \A i \in 1..n : Len(ret.val.values[i]) = n /\ AllNaN(ret.val.values[i])

\* the cross-risk matrix of two institutions, one of them with a zero score,
\* under a negative quadratic form
C11_Witness ==
    /\ Built /\ QuadraticForm < 0 /\ n = 2
    /\ ret.op = "calculate_cross_risk" /\ ret.outcome = "ok"
    /\ \E i \in 1..n : C[i] = 0

Degree(i) == SumSeq([j \in 1..n |-> At(E, i, j)])
TotalDegree == SumSeq([i \in 1..n |-> Degree(i)])
TotalSquaredDegree == SumSeq([i \in 1..n |-> Degree(i) * Degree(i)])

NonNegativeNetwork == \A i, j \in 1..n : At(E, i, j) >= 0

\* C15: the fragility the application shows is R = sum over i of (k_i / K)^2,
\* k_i the degree of node i and K the total degree, and so lies between 1/N
\* and 1 for a network of N institutions with non-negative connection strengths
C15_ConcentrationIndex ==
    (Built /\ ret.op = "calculate_fragility" /\ n >= 1
       /\ NonNegativeNetwork /\ TotalDegree > 0) =>
        /\ ret.outcome = "ok" /\ IsNum(ret.val)
        /\ RMul(ret.val, RInt(TotalDegree * TotalDegree)) = RInt(TotalSquaredDegree)
        /\ ret.val.den <= n * ret.val.num
        /\ ret.val.num <= ret.val.den

\* sum over i of C_i^2, term by term
SquaredNorm == SumSeq([i \in 1..n |-> C[i] * C[i]])

\* C16: the normalized score is S / ||C||_2: times the root of sum C_i^2 it is
\* the score the instance holds, and when C^T E C is non-negative it is a
\* non-negative number whose square times sum C_i^2 is C^T E C; it is 0
\* whenever ||C||_2 = 0
C16_NormalizedScore ==
    (Built /\ ret.op = "calculate_normalized_score") =>
        /\ ret.outcome = "ok"
        /\ SquaredNorm = 0 => ret.val = Zero
        /\ SquaredNorm > 0 =>
             /\ _s_score # None
             /\ RMul(ret.val, RSqrt(SquaredNorm)) = Get(_s_score)
             /\ QuadraticForm >= 0 =>
                  /\ IsNum(ret.val) /\ ret.val.num >= 0
                  /\ RMul(RMul(ret.val, ret.val), RInt(SquaredNorm)) = RInt(QuadraticForm)

\* the normalized score sqrt(3/2) of two institutions
C16_Witness ==
    /\ Built /\ ret.op = "calculate_normalized_score"
    /\ n = 2 /\ SquaredNorm = 2 /\ QuadraticForm = 3

\* E is the n x n identity matrix
IdentityNetwork == \A i, j \in 1..n : At(E, i, j) = (IF i = j THEN 1 ELSE 0)

\* C17 (amended): over the identity network the normalized score is 1 for
\* every compromise vector with a non-zero entry, and 0 for the all-zero
\* vector (the empty one included)
C17_NeutralNetwork ==
    (Built /\ ret.op = "calculate_normalized_score" /\ IdentityNetwork) =>
        /\ ret.outcome = "ok"
        /\ SquaredNorm > 0 => ret.val = RInt(1)
        /\ SquaredNorm = 0 => ret.val = Zero

\* two institutions of opposite non-zero scores over the identity network
C17_Witness ==
    /\ Built /\ ret.op = "calculate_normalized_score" /\ IdentityNetwork
    /\ n = 2 /\ C[1] = 1 /\ C[2] = -1 /\ ret.val = RInt(1)

\* C17 as stated: over the identity network the normalized score is 1 for
\* every compromise vector
C17_AsStated ==
    (Built /\ ret.op = "calculate_normalized_score" /\ IdentityNetwork) =>
        (ret.outcome = "ok" /\ ret.val = RInt(1))

\* the session holds as many scores as the connection table has rows and
\* columns
SessionValid ==
    /\ Len(compromise_vector) = Len(adjacency_matrix.index)
    /\ Len(compromise_vector) = Len(adjacency_matrix.columns)

Removal == ret.op = "simulate_removal"
Removed == ret.val.removed
Remaining == (1..Len(compromise_vector)) \ Removed

\* the row sum of institution i in the session's connection table
SessionDegree(i) == SumSeq(adjacency_matrix.values[i])

\* C18: removing institutions whose compromise score is 0 (their entries of C,
\* their rows and their columns of E) leaves the score S as it was
C18_ZeroCompromiseInvariance ==
    (Removal /\ SessionValid) =>
        /\ ret.outcome = "ok"
        /\ Len(ret.val.modified_compromise) = Cardinality(Remaining)
        /\ Len(ret.val.modified_adjacency.values) = Cardinality(Remaining)
        /\ (\A k \in Removed : compromise_vector[k] = 0) =>
               ret.val.modified_S = ret.val.original_S

\* one connected institution of score 0 removed from three, the score a
\* non-zero number and the fragility changed
C18_Witness ==
    /\ Removal /\ SessionValid /\ ret.outcome = "ok"
    /\ Len(compromise_vector) = 3
    /\ \E k \in 1..3 :
          /\ Removed = {k} /\ compromise_vector[k] = 0
          /\ SessionDegree(k) # 0
          /\ \E i \in Remaining : adjacency_matrix.values[i][k] # 0
    /\ IsNum(ret.val.original_S) /\ ret.val.original_S # Zero
    /\ ret.val.modified_S = ret.val.original_S
    /\ ret.val.modified_fragility # ret.val.original_fragility

\* every removed institution has degree 0 and no remaining institution has a
\* connection to it
RemovedDetached ==
    /\ \A k \in Removed : SessionDegree(k) = 0
    /\ \A i \in Remaining, k \in Removed : adjacency_matrix.values[i][k] = 0

IsGradient(g) ==
    /\ DOMAIN g = 1..n
    /\ \A i \in 1..n :
          IF QuadraticForm = 0 THEN g[i] = Zero
          ELSE IF QuadraticForm < 0 THEN g[i] = NaN
          ELSE RMul(g[i], RMul(RInt(2), RSqrt(QuadraticForm))) = RInt(SymmetricProduct(i))

\* the cached gradient G
G == Get(_gradient_s)

FrameCentrality == CentralityTable[adjacency_matrix]

PositionalCentrality ==
    calculate_eigenvector_centrality(
        Frame(n, n, [j \in 1..n |-> j], adjacency_matrix.values))

\* C22: whatever the labels of an accepted frame are, calculate_centrality
\* returns n entries, entry k being the centrality of the institution in row k
\* and column k of the matrix
C22_PositionalCentrality ==
    (Built /\ ret.op = "calculate_centrality") =>
        /\ ret.outcome = PositionalCentrality.outcome
        /\ ret.err = PositionalCentrality.err
        /\ ret.outcome = "ok" =>
              (Len(ret.val) = n /\ ret.val = PositionalCentrality.val)

\* the arguments of the constructions the last handler made that did not raise
EnginesBuilt ==
    IF ret.op \in {"calculate_all_metrics", "calculate_impact", "calc_network_impact",
                  "compare_scenarios"}
    THEN {ret.val.engines[k] : k \in {k \in DOMAIN ret.val.engines :
             LET c == ArrayOfSeries(ret.val.engines[k][1])
             IN validate_inputs(c, ArrayOfFrame(ret.val.engines[k][2]), Len(c)) = ""}}
    ELSE {}

\* C23: an engine is built only on data that a validation has found valid, so
\* on a compromise vector without negative entries
C23_ValidatedBeforeConstruction ==
    \A eng \in EnginesBuilt :
        /\ session_state.validated
        /\ \A i \in DOMAIN eng[1] : eng[1][i] >= 0


\* C24: a centrality computation makes at most max_iter passes of the power
\* iteration and ends by returning a vector or by raising ConvergenceFailure
C24_BoundedIteration ==
    (Built /\ ret.op = "calculate_centrality") =>
        /\ ret.it <= max_iter
        /\ \/ ret.outcome = "ok" /\ Len(ret.val) = n
           \/ ret.outcome = "raised" /\ ret.err = "ConvergenceFailure" /\ ret.it = max_iter


\* C25: the graph whose centrality is computed carries, for every ordered pair
\* (i, j), the weight E[i][j] of the matrix the score is computed from
C25_GraphIsAdjacency ==
    (Built /\ ret.op = "calculate_centrality" /\ ret.computed
       /\ ColumnsMatchIndices(E_df)) =>
        \A i, j \in 1..n : EdgeWeight(AlignedValues(E_df), i, j) = At(E, i, j)


\* the saved scenario selected in the k-th box of the last comparison
Compared(k) == Get(session_state.saved_scenarios[ret.val.selected[k]])

\* C26: in Compare Scenarios the engine of a saved scenario whose list of
\* removed institutions is not empty is built over the institutions that
\* remain after the removal
C26_RemovalApplied ==
    (ret.op = "compare_scenarios") =>
        \A k \in DOMAIN ret.val.engines :
            LET removed == Compared(k).modifications.removed_institutions
            IN (removed # {}) =>
                  Len(ret.val.engines[k][1]) =
                     Len(Compared(k).institution_df) - Cardinality(removed)


\* C30: the stored scenario modifications match the loaded data when they are
\* used: where Calculate Impact or Calculate Network Modification Impact has
\* built its calculator on the loaded data, its calculator on the modified
\* scores, or on the modified table, is built without a dimension error
C30_ModificationsMatchData ==
    (/\ ret.op \in {"calculate_impact", "calc_network_impact"}
     /\ Len(ret.val.engines) = 2
     /\ ConstructError(ret.val.engines[1][1], ret.val.engines[1][2]) = "") =>
        ConstructError(ret.val.engines[2][1], ret.val.engines[2][2]) = ""


\* the nine stored metrics
StoredMetrics ==
    <<session_state.systemic_risk_score, session_state.risk_decomposition,
      session_state.centrality, session_state.criticality, session_state.fragility,
      session_state.normalized_score, session_state.cross_risk_matrix,
      session_state.risk_increment, session_state.node_degrees>>

\* C29: Calculate All Metrics stores all nine metrics or none: a press that
\* ends in an error leaves each stored metric as it was
C29_AllOrNothing ==
    [][(ret'.op = "calculate_all_metrics" /\ ret'.outcome = "raised") =>
          StoredMetrics' = StoredMetrics]_vars


\* the sum of row i of the cross-risk matrix just returned
DeltaRowSum(i) == RSumSeq(ret.val.values[i])

\* C27: where S > 0, each row of the cross-risk matrix sums to the gradient
\* entry of its institution, so all its entries sum to the sum of the risk
\* increments
C27_CrossRiskRowSums ==
    (Built /\ ret.op = "calculate_cross_risk" /\ QuadraticForm > 0) =>
        /\ \A i \in 1..n : DeltaRowSum(i) = Get(_gradient_s)[i]
        /\ RSumSeq([i \in 1..n |-> DeltaRowSum(i)]) = RSumSeq(GradientFormula)

\* the cross-risk matrix of two institutions with different scores in an
\* asymmetric network, no gradient entry being zero
C27_Witness ==
    /\ Built /\ ret.op = "calculate_cross_risk" /\ ret.outcome = "ok"
    /\ n = 2 /\ QuadraticForm > 0 /\ ~Symmetric /\ C[1] # C[2]
    /\ \A i \in 1..n : ~REqZero(Get(_gradient_s)[i])


\* the frame of E^T, and the outputs of a calculator built on (C, E^T)
TransposedFrame ==
    [index |-> E_df.columns, columns |-> E_df.index, values |-> Transpose(E).data]
TransposedGradient == FreshGradient(C, Transpose(E))

=============================================================================
